---- MODULE Spec2Model ----
(***************************************************************************)
(* YaTTi (yet another TapTempo implementation): the rolling window of key  *)
(* hit instants (RegisteredHits) and the input loop (run, main) around it. *)
(*                                                                         *)
(* Instants and Durations are counted in nanoseconds, the resolution of    *)
(* std::time::Duration.  Two specifications share the state:               *)
(*   Spec     drives RegisteredHits the way the unit tests do: any         *)
(*            sequence of new_hit, next and reset_hits after new;          *)
(*   RunSpec  is the program: main calling run, one step per statement     *)
(*            that can fail or block.                                      *)
(***************************************************************************)
EXTENDS Integers, Sequences, FiniteSets, TLC

\* ---------------------------------------------------------------- bounds
\* Largest sample size tried at construction.
MaxCap == 5
\* Largest number of new_hit calls in one behaviour.
MaxHits == 6
\* Largest number of hits read by one run of the program.
MaxRunHits == 5
\* Latest instant the clock reaches (keeps instants inside 32-bit integers).
MaxClock == 2000000000

\* -------------------------------------------------------------- constants
\* Nanoseconds in one second (Duration::as_secs_f64, reset_time is in sec).
NanosPerSec == 1000000000

\* Time that can pass between two readings of Instant::now(): none (coarse
\* clock), one nanosecond, a tenth of a second, or a pause just longer than
\* one second.
Steps == {0, 1, NanosPerSec \div 10, NanosPerSec + 1}

\* ------------------------------------------------------------------ state
VARIABLES
    config,           \* Config {precision, reset_time, sample_size}
    registered_hits,  \* Result of RegisteredHits::new, NotCalled before it
    clock,            \* the last reading of the monotonic clock
    recorded,         \* every instant pushed by new_hit, oldest first
    epoch,            \* Len(recorded) when the window was last emptied
    last_op,          \* the last RegisteredHits method called
    ret,              \* what the last call of next() returned
    pc,               \* position of the program in main / run
    raw,              \* TRUE while the terminal is in raw mode
    output,           \* the lines printed so far
    event             \* the event read in this turn of the loop, else "none"

vars == <<config, registered_hits, clock, recorded, epoch, last_op, ret,
          pc, raw, output, event>>

\* ----------------------------------------------------------- Option/Result
None == [tag |-> "None"]
Some(d) == [tag |-> "Some", val |-> d]
Ok(v) == [tag |-> "Ok", val |-> v]
Err(e) == [tag |-> "Err", err |-> e]
NotCalled == [tag |-> "NotCalled"]

\* -------------------------------------------------------- RegisteredHits
\* VecDeque::pop_front on a non-empty deque.
pop_front(q) == Tail(q)

\* new with the test off by one: a sample size of one is accepted.
new_accepts_one(sample_size) ==
    IF sample_size < 1
    THEN Err("sample size must be at least two.")
    ELSE Ok([hits |-> << >>, sample_size |-> sample_size])

\* RegisteredHits::new
new(sample_size) ==
    IF sample_size <= 1
    THEN Err("sample size must be at least two.")
    ELSE Ok([hits |-> << >>, sample_size |-> sample_size])

\* new_hit that never removes a time stamp.
new_hit_no_evict(self, now) == [self EXCEPT !.hits = Append(self.hits, now)]

\* new_hit that removes the newest time stamp instead of the oldest.
new_hit_evict_newest(self, now) ==
    LET pushed == Append(self.hits, now)
    IN  IF Len(pushed) > self.sample_size
        THEN [self EXCEPT !.hits = SubSeq(pushed, 1, Len(pushed) - 1)]
        ELSE [self EXCEPT !.hits = pushed]

\* new_hit that pushes at the head and removes at the tail.
new_hit_push_front(self, now) ==
    LET pushed == <<now>> \o self.hits
    IN  IF Len(pushed) > self.sample_size
        THEN [self EXCEPT !.hits = SubSeq(pushed, 1, Len(pushed) - 1)]
        ELSE [self EXCEPT !.hits = pushed]

\* new_hit that evicts as soon as the sample size is reached (>= for >).
new_hit_evict_early(self, now) ==
    LET pushed == Append(self.hits, now)
    IN  IF Len(pushed) >= self.sample_size
        THEN [self EXCEPT !.hits = pop_front(pushed)]
        ELSE [self EXCEPT !.hits = pushed]

\* RegisteredHits::new_hit, with now the value of Instant::now()
new_hit(self, now) ==
    LET pushed == Append(self.hits, now)
    IN  IF Len(pushed) > self.sample_size
        THEN [self EXCEPT !.hits = pop_front(pushed)]
        ELSE [self EXCEPT !.hits = pushed]

\* reset_hits that keeps the oldest time stamp (truncate(1) for clear()).
reset_hits_keeps_one(self) ==
    [self EXCEPT !.hits = SubSeq(self.hits, 1, IF Len(self.hits) > 0 THEN 1 ELSE 0)]

\* reset_hits that replaces the window by an empty default one.
reset_hits_default(self) == [hits |-> << >>, sample_size |-> 0]

\* RegisteredHits::reset_hits
reset_hits(self) == [self EXCEPT !.hits = << >>]

\* Instant::duration_since (saturating), Duration::checked_div
duration_since(later, earlier) ==
    IF later >= earlier THEN later - earlier ELSE 0
checked_div(duration, rhs) ==
    IF rhs = 0 THEN None ELSE Some(duration \div rhs)

\* next that yields a zero duration where it has too few time stamps.
next_zero_default(self) ==
    IF Len(self.hits) <= 1
    THEN [self |-> self, ret |-> Some(0)]
    ELSE [self |-> self,
          ret  |-> checked_div(
                     duration_since(self.hits[Len(self.hits)], self.hits[1]),
                     Len(self.hits) - 1)]

\* next that yields the time between the two newest time stamps.
next_two_last(self) ==
    IF Len(self.hits) <= 1
    THEN [self |-> self, ret |-> None]
    ELSE [self |-> self,
          ret  |-> Some(duration_since(self.hits[Len(self.hits)],
                                       self.hits[Len(self.hits) - 1]))]

\* next that removes the oldest time stamp after computing its result.
next_consuming(self) ==
    IF Len(self.hits) <= 1
    THEN [self |-> self, ret |-> None]
    ELSE [self |-> [self EXCEPT !.hits = pop_front(self.hits)],
          ret  |-> checked_div(
                     duration_since(self.hits[Len(self.hits)], self.hits[1]),
                     Len(self.hits) - 1)]

\* next that divides by the number of time stamps, not of intervals.
next_div_len(self) ==
    IF Len(self.hits) <= 1
    THEN [self |-> self, ret |-> None]
    ELSE [self |-> self,
          ret  |-> checked_div(
                     duration_since(self.hits[Len(self.hits)], self.hits[1]),
                     Len(self.hits))]

\* next that yields None for a zero duration.
next_none_on_zero(self) ==
    IF Len(self.hits) <= 1
       \/ duration_since(self.hits[Len(self.hits)], self.hits[1]) = 0
    THEN [self |-> self, ret |-> None]
    ELSE [self |-> self,
          ret  |-> checked_div(
                     duration_since(self.hits[Len(self.hits)], self.hits[1]),
                     Len(self.hits) - 1)]

\* <RegisteredHits as Iterator>::next: the value returned and self after it
next(self) ==
    IF Len(self.hits) <= 1
    THEN [self |-> self, ret |-> None]
    ELSE [self |-> self,
          ret  |-> checked_div(
                     duration_since(self.hits[Len(self.hits)], self.hits[1]),
                     Len(self.hits) - 1)]

\* process_tempo: (1 / secs) * 60 in f64.  The quotient is kept exact as
\* beats per nanos nanoseconds; a zero duration gives the f64 infinity.
process_tempo(duration) ==
    IF duration = 0
    THEN [inf |-> TRUE, beats |-> 0, nanos |-> 0]
    ELSE [inf |-> FALSE, beats |-> 60, nanos |-> duration]

\* ------------------------------------------------- Spec: the unit-test view
IsOk == registered_hits.tag = "Ok"
Window == registered_hits.val
NumHits == Len(recorded)

\* The unit tests pass only a sample size; the other options keep a default.
Configs == [precision : {0}, reset_time : {1}, sample_size : 0..MaxCap]

Init ==
    /\ config \in Configs
    /\ registered_hits = NotCalled
    /\ clock = 0
    /\ recorded = << >>
    /\ epoch = 0
    /\ last_op = "none"
    /\ ret = None
    /\ pc = "test"
    /\ raw = FALSE
    /\ output = << >>
    /\ event = "none"

\* let registered_hits = RegisteredHits::new(n)
Construct ==
    /\ pc = "test"
    /\ registered_hits = NotCalled
    /\ registered_hits' = new(config.sample_size)
    /\ last_op' = "new"
    /\ UNCHANGED <<config, clock, recorded, epoch, ret, pc, raw, output, event>>

\* registered_hits.new_hit()
NewHit ==
    /\ pc = "test"
    /\ IsOk
    /\ NumHits < MaxHits
    /\ \E d \in Steps :
         /\ d <= MaxClock - clock
         /\ clock' = clock + d
         /\ registered_hits' = Ok(new_hit(Window, clock + d))
         /\ recorded' = Append(recorded, clock + d)
    /\ last_op' = "new_hit"
    /\ UNCHANGED <<config, epoch, ret, pc, raw, output, event>>

\* registered_hits.next()
NextCall ==
    /\ pc = "test"
    /\ IsOk
    /\ registered_hits' = Ok(next(Window).self)
    /\ ret' = next(Window).ret
    /\ last_op' = "next"
    /\ UNCHANGED <<config, clock, recorded, epoch, pc, raw, output, event>>

\* registered_hits.reset_hits()
ResetHits ==
    /\ pc = "test"
    /\ IsOk
    /\ registered_hits' = Ok(reset_hits(Window))
    /\ epoch' = NumHits
    /\ last_op' = "reset_hits"
    /\ UNCHANGED <<config, clock, recorded, ret, pc, raw, output, event>>

Next == Construct \/ NewHit \/ NextCall \/ ResetHits

Spec == Init /\ [][Next]_vars

\* --------------------------------------------------- RunSpec: the program
\* What event::read() can deliver: Char('q'), any other Char(c), Enter, Esc,
\* any other key, and any event that is not a key (resize, mouse).
QuitEvents == {"Char_q", "Esc"}
HitEvents == {"Char_other", "Enter"}
OtherEvents == {"OtherKey", "NonKey"}

\* A printed line: its kind, whether the terminal was in raw mode when it
\* was printed, and its content.
Line(kind, text) == [kind |-> kind, raw |-> raw, text |-> text]

\* println!("[TEMPO] {:.precision$} BPM", process_tempo(duration), ..): the
\* tempo and the number of digits it is printed with.
TempoLine(duration) ==
    Line("TEMPO", [bpm |-> process_tempo(duration),
                   digits |-> config.precision])
InfoLine == Line("INFO", "hit any key again to run tempo processing...")

\* Config::from_args(): precision is a u8, reset_time and sample_size u32.
RunConfigs == [precision : {0, 6}, reset_time : {1}, sample_size : 0..MaxCap]

RunInit ==
    /\ config \in RunConfigs
    /\ registered_hits = NotCalled
    /\ clock = 0
    /\ recorded = << >>
    /\ epoch = 0
    /\ last_op = "none"
    /\ ret = None
    /\ pc = "main"
    /\ raw = FALSE
    /\ output = << >>
    /\ event = "none"

\* main: println!("Hit any key (but q) in cadence (q to quit).")
MainStart ==
    /\ pc = "main"
    /\ output' = Append(output,
                        Line("BANNER", "Hit any key (but q) in cadence (q to quit)."))
    /\ pc' = "new"
    /\ UNCHANGED <<config, registered_hits, clock, recorded, epoch, last_op,
                   ret, raw, event>>

\* run: let mut registered_hits = RegisteredHits::new(..)?
RunNew ==
    /\ pc = "new"
    /\ registered_hits' = new(config.sample_size)
    /\ last_op' = "new"
    /\ pc' = IF new(config.sample_size).tag = "Ok" THEN "enable" ELSE "err"
    /\ UNCHANGED <<config, clock, recorded, epoch, ret, raw, output, event>>

\* terminal::enable_raw_mode()? at the top of the loop
EnableRawOk ==
    /\ pc = "enable"
    /\ raw' = TRUE
    /\ event' = "none"
    /\ pc' = "read"
    /\ UNCHANGED <<config, registered_hits, clock, recorded, epoch, last_op,
                   ret, output>>
EnableRawErr ==
    /\ pc = "enable"
    /\ pc' = "err"
    /\ UNCHANGED <<config, registered_hits, clock, recorded, epoch, last_op,
                   ret, raw, output, event>>

\* event::read()? fails
ReadErr ==
    /\ pc = "read"
    /\ pc' = "err"
    /\ UNCHANGED <<config, registered_hits, clock, recorded, epoch, last_op,
                   ret, raw, output, event>>
\* 'q' or Esc: break
ReadQuit ==
    /\ pc = "read"
    /\ \E e \in QuitEvents : event' = e
    /\ pc' = "break"
    /\ UNCHANGED <<config, registered_hits, clock, recorded, epoch, last_op,
                   ret, raw, output>>
\* any other character or Enter: registered_hits.new_hit()
ReadHit ==
    /\ pc = "read"
    /\ NumHits < MaxRunHits
    /\ \E e \in HitEvents, d \in Steps :
         /\ d <= MaxClock - clock
         /\ event' = e
         /\ clock' = clock + d
         /\ registered_hits' = Ok(new_hit(Window, clock + d))
         /\ recorded' = Append(recorded, clock + d)
    /\ last_op' = "new_hit"
    /\ pc' = "disable"
    /\ UNCHANGED <<config, epoch, ret, raw, output>>
\* ReadOther that leaves the loop on any key that is not a hit.
ReadOther_breaks ==
    /\ pc = "read"
    /\ \E e \in OtherEvents : event' = e
    /\ pc' = "break"
    /\ UNCHANGED <<config, registered_hits, clock, recorded, epoch, last_op,
                   ret, raw, output>>

\* ReadOther that registers a hit for any key (no `_ => continue` arm).
ReadOther_hits ==
    /\ pc = "read"
    /\ NumHits < MaxRunHits
    /\ \E e \in OtherEvents, d \in Steps :
         /\ d <= MaxClock - clock
         /\ event' = e
         /\ clock' = clock + d
         /\ registered_hits' = Ok(new_hit(Window, clock + d))
         /\ recorded' = Append(recorded, clock + d)
    /\ last_op' = "new_hit"
    /\ pc' = "disable"
    /\ UNCHANGED <<config, epoch, ret, raw, output>>

\* any other key or event: continue
ReadOther ==
    /\ pc = "read"
    /\ \E e \in OtherEvents : event' = e
    /\ pc' = "enable"
    /\ UNCHANGED <<config, registered_hits, clock, recorded, epoch, last_op,
                   ret, raw, output>>

\* terminal::disable_raw_mode()? after a hit
DisableRawOk ==
    /\ pc = "disable"
    /\ raw' = FALSE
    /\ pc' = "display"
    /\ UNCHANGED <<config, registered_hits, clock, recorded, epoch, last_op,
                   ret, output, event>>
DisableRawErr ==
    /\ pc = "disable"
    /\ pc' = "err"
    /\ UNCHANGED <<config, registered_hits, clock, recorded, epoch, last_op,
                   ret, raw, output, event>>

\* Display without the else branch: nothing is printed for None.
Display_silent_none ==
    /\ pc = "display"
    /\ registered_hits' = Ok(next(Window).self)
    /\ ret' = next(Window).ret
    /\ last_op' = "next"
    /\ output' = IF next(Window).ret.tag = "Some"
                 THEN Append(output, TempoLine(next(Window).ret.val))
                 ELSE output
    /\ event' = "none"
    /\ pc' = "enable"
    /\ UNCHANGED <<config, clock, recorded, epoch, raw>>

\* if let Some(duration) = registered_hits.next() { println!(..) } else { .. }
Display ==
    /\ pc = "display"
    /\ registered_hits' = Ok(next(Window).self)
    /\ ret' = next(Window).ret
    /\ last_op' = "next"
    /\ output' = Append(output,
                        IF next(Window).ret.tag = "Some"
                        THEN TempoLine(next(Window).ret.val)
                        ELSE InfoLine)
    /\ event' = "none"
    /\ pc' = "enable"
    /\ UNCHANGED <<config, clock, recorded, epoch, raw>>

\* terminal::disable_raw_mode()? after the loop
BreakDisableOk ==
    /\ pc = "break"
    /\ raw' = FALSE
    /\ pc' = "ok"
    /\ UNCHANGED <<config, registered_hits, clock, recorded, epoch, last_op,
                   ret, output, event>>
BreakDisableErr ==
    /\ pc = "break"
    /\ pc' = "err"
    /\ UNCHANGED <<config, registered_hits, clock, recorded, epoch, last_op,
                   ret, raw, output, event>>

\* main: println!("Goodbye!") and return
MainGoodbye ==
    /\ pc = "ok"
    /\ output' = Append(output, Line("GOODBYE", "Goodbye!"))
    /\ pc' = "exit0"
    /\ UNCHANGED <<config, registered_hits, clock, recorded, epoch, last_op,
                   ret, raw, event>>
\* main: eprintln!("[ERROR] {}", e); process::exit(1)
MainError ==
    /\ pc = "err"
    /\ output' = Append(output,
                        Line("ERROR", IF registered_hits.tag = "Err"
                                      THEN registered_hits.err
                                      ELSE "io error"))
    /\ pc' = "exit1"
    /\ UNCHANGED <<config, registered_hits, clock, recorded, epoch, last_op,
                   ret, raw, event>>

RunNext ==
    \/ MainStart \/ RunNew
    \/ EnableRawOk \/ EnableRawErr
    \/ ReadErr \/ ReadQuit \/ ReadHit \/ ReadOther
    \/ DisableRawOk \/ DisableRawErr
    \/ Display
    \/ BreakDisableOk \/ BreakDisableErr
    \/ MainGoodbye \/ MainError

RunSpec == RunInit /\ [][RunNext]_vars

\* ================================================================ claims
\* The instants pushed since the window was constructed or last reset.
SinceReset == SubSeq(recorded, epoch + 1, NumHits)
\* The last n elements of a sequence.
LastN(q, n) == SubSeq(q, Len(q) - n + 1, Len(q))

\* C1 - Capacity invariant: after every call of new_hit, next or reset_hits
\* on a window constructed with a sample size of at least two, the number of
\* retained time stamps lies between 0 and the sample size.
C1_CapacityInvariant ==
    IsOk => /\ 0 <= Len(Window.hits)
            /\ Len(Window.hits) <= Window.sample_size
\* A full window that has already evicted at least one time stamp.
C1_Witness ==
    /\ IsOk
    /\ last_op = "new_hit"
    /\ Len(SinceReset) > Window.sample_size
    /\ Len(Window.hits) = Window.sample_size

\* C2 - FIFO eviction: once at least sample_size hits were recorded on a
\* fresh or freshly reset window, the window holds exactly the last
\* sample_size recorded instants, in the order they were recorded.
C2_FifoEviction ==
    (IsOk /\ Len(SinceReset) >= Window.sample_size)
        => Window.hits = LastN(SinceReset, Window.sample_size)
\* Eviction has happened twice on a reset window, and the evicted instants
\* differ from the retained ones.
C2_Witness ==
    /\ IsOk
    /\ epoch > 0
    /\ Len(SinceReset) = Window.sample_size + 2
    /\ SinceReset[1] < SinceReset[2]
    /\ SinceReset[2] < SinceReset[3]
    /\ Window.hits = LastN(SinceReset, Window.sample_size)

\* C3 - Construction rejection: new with a sample size of 0 or 1 returns the
\* error and no window; with a sample size of at least two it returns a
\* window with no time stamps and the given sample size.
C3_Construction ==
    last_op = "new" =>
        IF config.sample_size <= 1
        THEN /\ registered_hits.tag = "Err"
             /\ registered_hits.err = "sample size must be at least two."
             /\ "val" \notin DOMAIN registered_hits
        ELSE /\ registered_hits.tag = "Ok"
             /\ registered_hits.val.hits = << >>
             /\ registered_hits.val.sample_size = config.sample_size
\* new(1) was called and rejected.
C3_Witness ==
    /\ last_op = "new"
    /\ config.sample_size = 1
    /\ registered_hits.tag = "Err"

\* C4 - No-estimate boundary: a call of next on a window holding zero or one
\* time stamp returns None, never a zero or default duration.
C4_NoEstimateBoundary ==
    [][(last_op' = "next" /\ IsOk /\ Len(Window.hits) <= 1)
          => ret' = None]_vars
\* next was called on a window holding exactly one time stamp.
C4_Witness ==
    /\ IsOk
    /\ last_op = "next"
    /\ Len(Window.hits) = 1
    /\ ret = None

C6_NonConsuming ==
    [][last_op' = "next"
          => /\ registered_hits' = registered_hits
             /\ (last_op = "next" => ret' = ret)]_vars
\* next returned a duration from a window it could have consumed from.
C6_Witness ==
    /\ IsOk
    /\ last_op = "next"
    /\ Len(Window.hits) >= 3
    /\ ret.tag = "Some"

\* C7 - Reset: reset_hits leaves no time stamp, also on an empty window; a
\* next that directly follows it returns None; and a second reset_hits in a
\* row changes nothing.
C7_Reset ==
    [][/\ last_op' = "reset_hits"
          => /\ registered_hits'.tag = "Ok"
             /\ Len(registered_hits'.val.hits) = 0
       /\ (last_op = "reset_hits" /\ last_op' = "next") => ret' = None
       /\ (last_op = "reset_hits" /\ last_op' = "reset_hits")
          => registered_hits' = registered_hits]_vars
\* reset_hits emptied a window that had been filled beyond its sample size.
C7_Witness ==
    /\ IsOk
    /\ last_op = "reset_hits"
    /\ epoch > Window.sample_size
    /\ epoch = NumHits
    /\ Window.hits = << >>

\* C8 - Idle reset policy: when more than reset_time seconds have passed
\* since the last recorded hit, the loop resets the window before it records
\* the next hit, so that hit is the only time stamp of the window.
C8_IdleReset ==
    [][(/\ pc = "read" /\ pc' = "disable"
        /\ NumHits > 0
        /\ clock' - recorded[NumHits] > config.reset_time * NanosPerSec)
          => registered_hits'.val.hits = <<clock'>>]_vars

\* C9 - Zero-interval guard: when the window holds two or more time stamps
\* that are all the same instant, the line printed for the hit is the
\* informational line, not a tempo line.
C9_ZeroIntervalGuard ==
    [][(/\ pc = "display" /\ pc' = "enable"
        /\ Len(Window.hits) >= 2
        /\ \A i \in 1..Len(Window.hits) : Window.hits[i] = Window.hits[1])
          => output'[Len(output')].kind = "INFO"]_vars

\* The lines printed for hits: tempo lines and informational lines.
IsHitLine(l) == l.kind \in {"TEMPO", "INFO"}
HitLines == SelectSeq(output, IsHitLine)
\* The window after the i-th recorded hit, and the mean interval over it.
WindowAfter(i) ==
    LastN(SubSeq(recorded, 1, i),
          IF i < config.sample_size THEN i ELSE config.sample_size)
MeanAfter(i) ==
    (WindowAfter(i)[Len(WindowAfter(i))] - WindowAfter(i)[1])
        \div (Len(WindowAfter(i)) - 1)
\* The i-th hit line is the line for the estimate taken after the i-th
\* recorded hit: informational for the first hit, a tempo line with the
\* tempo of the mean interval for every later one.
HitLineMatches(i) ==
    IF i = 1
    THEN HitLines[i].kind = "INFO"
    ELSE /\ HitLines[i].kind = "TEMPO"
         /\ HitLines[i].text.bpm = process_tempo(MeanAfter(i))
\* Positions of the program between two hits, and between the record of a
\* hit and its line.
BetweenHits == {"main", "new", "enable", "read", "break", "ok", "exit0"}
HitInProgress == {"disable", "display"}

\* C10 as stated - when the program has ended, every recorded hit has its
\* one line.
C10_OneLinePerHit ==
    pc \in {"exit0", "exit1"}
        => /\ Len(HitLines) = NumHits
           /\ \A i \in 1..NumHits : HitLineMatches(i)

\* C10 amended - every recorded hit after which disable_raw_mode succeeds
\* has exactly one line, printed from the estimate taken after that record:
\* the informational line for the first hit, a tempo line afterwards, and
\* never a tempo line from fewer than two time stamps.  A hit after which
\* disable_raw_mode fails gets no line: run returns the error.
C10_OneLinePerDisplayedHit ==
    /\ pc \in BetweenHits => Len(HitLines) = NumHits
    /\ pc \in HitInProgress => Len(HitLines) = NumHits - 1
    /\ pc \in {"err", "exit1"}
          => (Len(HitLines) = NumHits \/ Len(HitLines) = NumHits - 1)
    /\ \A i \in 1..Len(HitLines) : HitLineMatches(i)
    /\ (Len(HitLines) = NumHits /\ NumHits > 0 /\ IsOk)
          => (HitLines[NumHits].kind = "TEMPO" <=> Len(Window.hits) >= 2)
\* Three hits were processed: one informational line, then two tempo lines,
\* the last one printed after the window had started to evict.
C10_Witness ==
    /\ pc = "enable"
    /\ IsOk
    /\ Window.sample_size = 2
    /\ NumHits = 3
    /\ Len(HitLines) = 3
    /\ HitLines[1].kind = "INFO"
    /\ HitLines[3].kind = "TEMPO"

\* The last line printed.
LastLine == output[Len(output)]

\* C11 - Exit behaviour: the program exits with code 0 only after a quit key
\* was read on a constructed window; when construction fails (sample size of
\* 0 or 1) it never reaches the loop and exits with code 1 after the error
\* line; and the window becomes the invalid-configuration error only at the
\* start of run, before raw mode was enabled and before any event was read.
C11_ExitBehaviour ==
    /\ [](/\ pc = "exit0" => (event \in QuitEvents /\ IsOk)
          /\ registered_hits.tag = "Err"
                => /\ pc \in {"err", "exit1"}
                   /\ ~raw
                   /\ event = "none"
                   /\ NumHits = 0
          /\ (registered_hits.tag = "Err" /\ pc = "exit1")
                => /\ LastLine.kind = "ERROR"
                   /\ LastLine.text = "sample size must be at least two."
          /\ (pc \notin {"main", "new"} /\ config.sample_size <= 1)
                => registered_hits.tag = "Err")
    /\ [][(registered_hits'.tag = "Err" /\ registered_hits.tag # "Err")
             => (pc = "new" /\ ~raw /\ event = "none")]_vars
\* Construction failed and the program exited with code 1.
C11_Witness ==
    /\ pc = "exit1"
    /\ config.sample_size = 1
    /\ registered_hits.tag = "Err"
    /\ LastLine.kind = "ERROR"

\* C12 - Precision bound: no tempo line is printed with more than five
\* digits after the decimal point, whatever precision the options give.
C12_PrecisionBound ==
    \A i \in 1..Len(output) :
        output[i].kind = "TEMPO" => output[i].text.digits <= 5

\* C13 - Monotonic order: the retained time stamps never decrease from the
\* oldest to the newest, new_hit being called with the readings of a
\* monotonic clock.
C13_MonotonicOrder ==
    IsOk => \A i \in 1..(Len(Window.hits) - 1) :
                Window.hits[i] <= Window.hits[i + 1]
\* A full window that has evicted, holding strictly increasing time stamps.
C13_Witness ==
    /\ IsOk
    /\ Len(SinceReset) > Window.sample_size
    /\ Len(Window.hits) >= 3
    /\ \A i \in 1..(Len(Window.hits) - 1) : Window.hits[i] < Window.hits[i + 1]

\* C14 - Raw mode is released on every exit path: once run has returned,
\* with Ok or with an error, the terminal is not in raw mode.
C14_RawReleasedOnExit ==
    pc \in {"ok", "err", "exit0", "exit1"} => ~raw

\* C15 - Raw mode is released before any output: every line printed after
\* the loop has started (tempo, informational, error, goodbye) is printed
\* with raw mode disabled, and every event read happens in raw mode.
C15_RawReleasedBeforeOutput ==
    /\ \A i \in 1..Len(output) :
          output[i].kind \in {"TEMPO", "INFO", "ERROR", "GOODBYE"}
              => ~output[i].raw
    /\ pc = "read" => raw

\* C16 - Record step: a call of new_hit appends the new time stamp at the
\* tail; on a window that is not full the length grows by one and nothing is
\* removed; on a full window exactly the head is removed and the length stays
\* the sample size.  new_hit never fails.
C16_RecordStep ==
    [][(last_op' = "new_hit" /\ recorded' # recorded)
          => /\ registered_hits'.tag = "Ok"
             /\ registered_hits'.val.sample_size = Window.sample_size
             /\ IF Len(Window.hits) < Window.sample_size
                THEN registered_hits'.val.hits = Append(Window.hits, clock')
                ELSE /\ Len(Window.hits) = Window.sample_size
                     /\ registered_hits'.val.hits
                           = Append(Tail(Window.hits), clock')]_vars
\* new_hit on a full window removed the head, an instant older than the rest.
C16_Witness ==
    /\ IsOk
    /\ last_op = "new_hit"
    /\ Len(SinceReset) = Window.sample_size + 1
    /\ SinceReset[1] < SinceReset[2]
    /\ Window.hits = Tail(SinceReset)

\* All consecutive instants of a sequence are d apart.
Uniform(q, d) == \A i \in 1..(Len(q) - 1) : q[i + 1] - q[i] = d

\* C17 - Uniform tapping: when all consecutive hits recorded since the
\* window was emptied are the same interval d apart, next returns d from the
\* second hit onward, while the window fills and after it has evicted.
C17_UniformTapping ==
    [][(/\ last_op' = "next" /\ IsOk
        /\ Len(SinceReset) >= 2
        /\ Uniform(SinceReset, SinceReset[2] - SinceReset[1]))
          => ret' = Some(SinceReset[2] - SinceReset[1])]_vars
\* Six hits a tenth of a second apart on a window of three: next gave 100 ms
\* after eviction had started.
C17_Witness ==
    /\ IsOk
    /\ last_op = "next"
    /\ Window.sample_size = 3
    /\ Len(SinceReset) = 6
    /\ Uniform(SinceReset, NanosPerSec \div 10)
    /\ ret = Some(NanosPerSec \div 10)

\* C18 - Capacity is fixed: the sample size of a constructed window is the
\* value given at construction, is at least two, and no call changes it.
C18_CapacityFixed ==
    IsOk => /\ Window.sample_size = config.sample_size
            /\ Window.sample_size >= 2
\* The window was reset and filled again beyond its sample size.
C18_Witness ==
    /\ IsOk
    /\ epoch > 0
    /\ last_op = "next"
    /\ Len(SinceReset) > Window.sample_size
    /\ Window.sample_size = config.sample_size

\* C19 - Absent means too few samples only: next returns None exactly when
\* the window holds at most one time stamp; with two or more it returns a
\* duration, which is a present zero when oldest and newest are the same
\* instant.
C19_AbsentIffTooFew ==
    [][(last_op' = "next" /\ IsOk)
          => /\ (ret' = None <=> Len(Window.hits) <= 1)
             /\ Len(Window.hits) >= 2 => ret'.tag = "Some"
             /\ (Len(Window.hits) >= 2
                 /\ Window.hits[1] = Window.hits[Len(Window.hits)])
                   => ret' = Some(0)]_vars
\* next returned a present zero duration from three equal instants.
C19_Witness ==
    /\ IsOk
    /\ last_op = "next"
    /\ Len(Window.hits) = 3
    /\ Window.hits[1] = Window.hits[3]
    /\ ret = Some(0)

\* C20 - Event classification: the window changes only when a hit event (a
\* character other than 'q', or Enter) is read, and every hit event is
\* recorded; a quit event ('q' or Esc) leaves the loop without recording
\* and no tempo or informational line is printed after it; any other event
\* changes neither the window nor the output and control goes back to the
\* top of the loop.
C20_EventClassification ==
    [][/\ (IsOk /\ registered_hits' # registered_hits)
             => (pc = "read" /\ event' \in HitEvents)
       /\ recorded' # recorded => (pc = "read" /\ event' \in HitEvents)
       /\ (pc = "read" /\ event' \in HitEvents)
             => /\ recorded' = Append(recorded, clock')
                /\ registered_hits' = Ok(new_hit(Window, clock'))
                /\ output' = output
       /\ (pc = "read" /\ event' \in QuitEvents)
             => /\ pc' = "break"
                /\ registered_hits' = registered_hits
                /\ recorded' = recorded
                /\ output' = output
       /\ (pc = "read" /\ event' \in OtherEvents)
             => /\ pc' = "enable"
                /\ registered_hits' = registered_hits
                /\ recorded' = recorded
                /\ output' = output
       /\ pc \in {"break", "ok", "exit0"}
             => /\ registered_hits' = registered_hits
                /\ Len(SelectSeq(output', IsHitLine)) = Len(HitLines)]_vars
\* After two processed hits a key that is neither a hit nor a quit was read:
\* the window and the lines are those of the two hits.
C20_Witness ==
    /\ pc = "enable"
    /\ event \in OtherEvents
    /\ NumHits = 2
    /\ Len(Window.hits) = 2
    /\ Len(HitLines) = 2

====
